---- MODULE Spec2Model ----
(***************************************************************************)
(* md2-bevy: the MD2 model decoder (src/src/md2.rs, with the older variant *)
(* src/src/lib.rs), the animation player of MD2Component and the PCX image *)
(* decoder (src/src/pcx.rs).                                               *)
(*                                                                         *)
(* Seven specifications share the variables:                               *)
(*   Spec      a component is loaded from a well-formed file and then      *)
(*             driven by animate / set_anim_idx / next_anim /              *)
(*             set_skin_idx / next_skin;                                   *)
(*   SpecLoad  MD2::load is applied to files that may be malformed         *)
(*             (counts, offsets, truncation, triangle indices);            *)
(*   SpecName  Frame::get_name is applied to 16-byte name fields;          *)
(*   SpecRle   decompress_rle_data is applied to byte strings;             *)
(*   SpecPcx   parse_pcx is applied to whole PCX buffers, in a build with  *)
(*             and in a build without overflow checks;                     *)
(*   SpecSkins MD2::find_skins is applied to directories;                  *)
(*   SpecPlay  animate is called on every frame with the deltas of a       *)
(*             schedule, the factor being an f32 with its rounding.        *)
(*                                                                         *)
(* Numbers.  f32 values are modelled by exact integers / fixed point:      *)
(* interp is a numerator over TicksPerSecond, a frame time delta is a      *)
(* whole number of ticks of 1/TicksPerSecond seconds, positions are        *)
(* integers, and a buffer returned by animate holds the interpolated       *)
(* positions multiplied by TicksPerSecond.  Rounding of f32 is modelled in *)
(* SpecPlay only: the sums of the other specifications are exact in f32.   *)
(* The u32 and usize values of the PCX decoder keep their width: each is   *)
(* the sequence of its bytes.                                              *)
(***************************************************************************)
EXTENDS Integers, Sequences, FiniteSets, TLC

VARIABLES
    pc,          \* "start" | "ready" | "failed" | "decoded" | "field" | "named" | "parsed" | "expanded" | "dir" | "scanned"
    file,        \* the input: the MD2 file and its directory
    result,      \* what MD2::load returned (kind, animations, texcoords, skins)
    anim_idx,    \* MD2Component.anim_idx
    curr_frame,  \* MD2Component.curr_frame
    interp,      \* MD2Component.interp, numerator over TicksPerSecond
    skin_idx,    \* MD2Component.skin_idx
    materials,   \* MD2Component.materials: per skin 0 (None) or a handle id
    assets,      \* number of materials added to Assets<StandardMaterial>
    out,         \* the buffer the last animate call returned
    op,          \* the last operation called on the component, with its argument
    field,       \* SpecName: the 16-byte name field
    name,        \* SpecName: the names derived from it (md2.rs and lib.rs)
    data,        \* SpecPcx, SpecRle: the bytes handed to the PCX decoder
    image,       \* SpecPcx: what parse_pcx returned
    rle,         \* the call of decompress_rle_data: input, total_bytes, ret
    alloc,       \* SpecPcx: the width, height and buffer length parse_pcx computed
    found,       \* SpecSkins: the Vec<Skin> find_skins returned
    mat3d,       \* the handle in the MeshMaterial3d set_skin_idx returned (0: none yet)
    schedule     \* SpecPlay: the deltas of the calls to come: first calls, then one fixed delta

vars == <<pc, file, result, anim_idx, curr_frame, interp, skin_idx, materials,
          assets, out, op, field, name, data, image, rle, alloc, found, mat3d, schedule>>

-----------------------------------------------------------------------------
(* Bounds of the model *)

MaxFrames == 3
MaxNameLen == 3
MaxDelta == 9
TicksPerSecond == 32
MaxTris == 1
MaxXyz == 2
MaxSt == 2
MaxMeshTris == 2

(* Program constants *)

HeaderSize == 68
TexCoordSize == 4
TriangleSize == 12
VertexSize == 4
FrameSize == 40
NameSize == 16
PlaybackRate == 8

-----------------------------------------------------------------------------
(* Small helpers *)

Max(a, b) == IF a >= b THEN a ELSE b

SeqsUpTo(S, n) == UNION {[1..k -> S] : k \in 0..n}

Ok(v) == [kind |-> "Ok", val |-> v]

InvalidFormat == [kind |-> "InvalidFormat", val |-> <<>>]

Panic == [kind |-> "Panic", val |-> <<>>]

-----------------------------------------------------------------------------
(* Frame names: bytes are numbers, a name is a sequence of bytes *)

IsAsciiDigit(c) == c \in 48..57

IsAsciiControl(c) == c \in 0..31 \/ c = 127

IsTrimmed(c) == IsAsciiDigit(c) \/ IsAsciiControl(c)

Prefix(s, n) == [i \in 1..n |-> s[i]]

\* md2.rs Frame::get_name: cut at the FIRST digit or control character
GetName(f) ==
    LET hits == {i \in 1..Len(f) : IsTrimmed(f[i])}
        end == IF hits = {} THEN Len(f)
               ELSE (CHOOSE i \in hits : \A j \in hits : i <= j) - 1
    IN  Prefix(f, end)

\* lib.rs Frame::get_name: trim_end_matches removes the trailing run
GetNameLib(f) ==
    LET keep == {i \in 1..Len(f) : ~IsTrimmed(f[i])}
        end == IF keep = {} THEN 0
               ELSE CHOOSE i \in keep : \A j \in keep : i >= j
    IN  Prefix(f, end)

\* a prefix of at most MaxNameLen bytes followed by one repeated pad byte
Pad(p, c) == [i \in 1..NameSize |-> IF i <= Len(p) THEN p[i] ELSE c]

NameAlphabet == {97, 49, 0}

AllFields == {Pad(p, c) : p \in [1..MaxNameLen -> NameAlphabet], c \in {0, 97}}

\* the fields the decoded files use: run1, run2, idle1, a1b
FieldRun1 == Pad(<<114, 49>>, 0)
FieldRun2 == Pad(<<114, 50>>, 0)
FieldIdle1 == Pad(<<105, 49>>, 0)
FieldMixed == Pad(<<114, 49, 98>>, 0)

LoadFields == {FieldRun1, FieldRun2, FieldIdle1, FieldMixed}

-----------------------------------------------------------------------------
(* The input file.  The buffer is its length `len`; the records the decoder *)
(* finds at the places its offsets name are the sequences sts, tris, frames *)
(* (frames[k].verts are the vertex records that follow frame k's header).   *)

\* raw texture coordinate j (0-based), signed 16-bit (s, t)
RawTexCoord(j) == [s |-> 8 * (j + 1), t |-> 4 * (j + 1)]

\* raw vertex j (0-based) of frame k (1-based): three bytes and a normal index
RawVertex(k, j) == [v |-> <<10 * k + j, 20 * k + j, 30 * k + j>>, normal_index |-> 0]

RawFrame(k, fld, nxyz) ==
    [scale |-> <<1, 2, 3>>, translate |-> <<0, 100, 200>>, name |-> fld,
     verts |-> [j \in 1..nxyz |-> RawVertex(k, j - 1)]]

TriShapes ==
    { [vertex |-> <<0, 1, 0>>, st |-> <<1, 0, 1>>],
      [vertex |-> <<0, 0, 0>>, st |-> <<0, 0, 0>>],
      [vertex |-> <<1, 0, 0>>, st |-> <<0, 0, 0>>],
      [vertex |-> <<0, 0, 0>>, st |-> <<0, 1, 0>>] }

\* a file name is the sequence of its characters, a directory the set of the
\* names of its files
FooPcx == <<"f", "o", "o", ".", "p", "c", "x">>
FooPng == <<"f", "o", "o", ".", "p", "n", "g">>
BarPcx == <<"b", "a", "r", ".", "p", "c", "x">>
BarPng == <<"b", "a", "r", ".", "p", "n", "g">>

DirBoth == {FooPcx, FooPng, BarPng}
DirOne == {FooPcx}

\* a file laid out section after section: header, texcoords, triangles, frames;
\* a negative count stands in the header and the section is empty
MkFile(nst, ntris, tris, nxyz, nframes, flds, dir) ==
    LET ost == HeaderSize
        otris == ost + Max(nst, 0) * TexCoordSize
        ofr == otris + Len(tris) * TriangleSize
    IN  [len |-> ofr + Len(flds) * (FrameSize + Max(nxyz, 0) * VertexSize),
         skinwidth |-> 64, skinheight |-> 32,
         num_xyz |-> nxyz, num_st |-> nst, num_tris |-> ntris, num_frames |-> nframes,
         offset_st |-> ost, offset_tris |-> otris, offset_frames |-> ofr,
         sts |-> [j \in 1..Max(nst, 0) |-> RawTexCoord(j - 1)],
         tris |-> tris,
         frames |-> [k \in 1..Len(flds) |-> RawFrame(k, flds[k], Max(nxyz, 0))],
         dir |-> dir]

\* one section offset moved, or the buffer cut short
Perturbations ==
    {<<"none", "none">>} \cup ({"st", "tris", "frames"} \X {"neg", "last", "end", "past"})

OffsetValue(f, how, old) ==
    CASE how = "neg" -> -1
      [] how = "last" -> f.len - 1
      [] how = "end" -> f.len
      [] how = "past" -> f.len + 1
      [] OTHER -> old

Perturb(f, p, cut) ==
    LET g == [f EXCEPT !.len = f.len - cut]
    IN  [g EXCEPT
           !.offset_st = IF p[1] = "st" THEN OffsetValue(g, p[2], @) ELSE @,
           !.offset_tris = IF p[1] = "tris" THEN OffsetValue(g, p[2], @) ELSE @,
           !.offset_frames = IF p[1] = "frames" THEN OffsetValue(g, p[2], @) ELSE @]

-----------------------------------------------------------------------------
(* MD2 decoding (src/src/md2.rs).  Every step returns Ok(value),            *)
(* InvalidFormat (Err(Md2LoaderError::InvalidFormat)) or Panic (the thread  *)
(* aborts: a slice whose start lies past the buffer end, an index outside a *)
(* Vec).                                                                    *)

\* &data[off..] followed by X::from_bytes, for a record of `size` bytes in a
\* buffer of `len` bytes
ReadRecord(len, off, size) ==
    IF off > len THEN "Panic"
    ELSE IF len - off < size THEN "InvalidFormat"
    ELSE "Ok"

\* Header::from_bytes
HeaderFromBytes(f) == IF f.len < HeaderSize THEN InvalidFormat ELSE Ok(f)

RECURSIVE TrianglesLoop(_, _, _)
TrianglesLoop(f, i, triangles) ==
    IF i >= f.num_tris THEN Ok(triangles)
    ELSE LET r == ReadRecord(f.len, f.offset_tris + i * TriangleSize, TriangleSize)
         IN  IF r = "Panic" THEN Panic
             ELSE IF r = "InvalidFormat" THEN InvalidFormat
             ELSE TrianglesLoop(f, i + 1, Append(triangles, f.tris[i + 1]))

\* MD2::load_triangles
LoadTriangles(f) ==
    IF f.num_tris < 0 THEN InvalidFormat
    ELSE IF f.offset_tris < 0 THEN InvalidFormat
    ELSE TrianglesLoop(f, 0, <<>>)

RECURSIVE RawTexcoordsLoop(_, _, _)
RawTexcoordsLoop(f, i, acc) ==
    IF i >= f.num_st THEN Ok(acc)
    ELSE LET r == ReadRecord(f.len, f.offset_st + i * TexCoordSize, TexCoordSize)
         IN  IF r = "Panic" THEN Panic
             ELSE IF r = "InvalidFormat" THEN InvalidFormat
             ELSE RawTexcoordsLoop(f, i + 1, Append(acc, f.sts[i + 1]))

\* one normalized texture coordinate: s / skinwidth, t / skinheight as fractions
TexCoordOf(f, tc) == <<tc.s, f.skinwidth, tc.t, f.skinheight>>

\* the expansion loop of load_texcoords: entry n (0-based) is triangle n \div 3,
\* corner n % 3
\* mutant of ExpandTexcoords: the table is indexed by the vertex index
RECURSIVE MutExpandTexcoordsByVertex(_, _, _, _, _)
MutExpandTexcoordsByVertex(f, triangles, unscaled, n, acc) ==
    IF n >= 3 * Len(triangles) THEN Ok(acc)
    ELSE LET index == triangles[(n \div 3) + 1].vertex[(n % 3) + 1]
         IN  IF index >= Len(unscaled) THEN Panic
             ELSE MutExpandTexcoordsByVertex(f, triangles, unscaled, n + 1,
                                  Append(acc, TexCoordOf(f, unscaled[index + 1])))

RECURSIVE ExpandTexcoords(_, _, _, _, _)
ExpandTexcoords(f, triangles, unscaled, n, acc) ==
    IF n >= 3 * Len(triangles) THEN Ok(acc)
    ELSE LET index == triangles[(n \div 3) + 1].st[(n % 3) + 1]
         IN  IF index >= Len(unscaled) THEN Panic
             ELSE ExpandTexcoords(f, triangles, unscaled, n + 1,
                                  Append(acc, TexCoordOf(f, unscaled[index + 1])))

\* MD2::load_texcoords
LoadTexcoords(f, triangles) ==
    IF f.num_st < 0 THEN InvalidFormat
    ELSE IF f.offset_st < 0 THEN InvalidFormat
    ELSE LET raw == RawTexcoordsLoop(f, 0, <<>>)
         IN  IF raw.kind # "Ok" THEN raw
             ELSE ExpandTexcoords(f, triangles, raw.val, 0, <<>>)

RECURSIVE RawVerticesLoop(_, _, _, _, _)
RawVerticesLoop(remaining, num_xyz, verts, i, acc) ==
    IF i >= num_xyz THEN Ok(acc)
    ELSE LET r == ReadRecord(remaining, i * VertexSize, VertexSize)
         IN  IF r = "Panic" THEN Panic
             ELSE IF r = "InvalidFormat" THEN InvalidFormat
             ELSE RawVerticesLoop(remaining, num_xyz, verts, i + 1,
                                  Append(acc, verts[i + 1]))

\* coordinate = raw byte * scale[axis] + translate[axis]; y and z are swapped
Decompress(frame, vertex) ==
    LET x == frame.scale[1] * vertex.v[1] + frame.translate[1]
        z == frame.scale[2] * vertex.v[2] + frame.translate[2]
        y == frame.scale[3] * vertex.v[3] + frame.translate[3]
    IN  <<x, y, z>>

RECURSIVE ExpandVertices(_, _, _, _, _)
ExpandVertices(frame, triangles, raw_vertices, n, acc) ==
    IF n >= 3 * Len(triangles) THEN Ok(acc)
    ELSE LET vi == triangles[(n \div 3) + 1].vertex[(n % 3) + 1]
         IN  IF vi >= Len(raw_vertices) THEN Panic
             ELSE ExpandVertices(frame, triangles, raw_vertices, n + 1,
                                 Append(acc, Decompress(frame, raw_vertices[vi + 1])))

\* MD2::read_and_decompress_vertices on a slice of `remaining` bytes
ReadAndDecompressVertices(remaining, num_xyz, frame, triangles) ==
    LET raw == RawVerticesLoop(remaining, num_xyz, frame.verts, 0, <<>>)
    IN  IF raw.kind # "Ok" THEN raw
        ELSE ExpandVertices(frame, triangles, raw.val, 0, <<>>)

\* Option<String>: None is <<>>, Some(s) is <<s>>
None == <<>>

Some(s) == <<s>>

\* the grouping step of load_animations for one frame (lines 344-357): st holds
\* key_frames, animations and last_frame_name
GroupFrame(st, curr_name, vertices) ==
    LET flush == st.last_frame_name # None /\ st.last_frame_name[1] # curr_name
        animations == IF flush
                      THEN Append(st.animations,
                                  [name |-> st.last_frame_name[1],
                                   key_frames |-> st.key_frames])
                      ELSE st.animations
        key_frames == IF flush THEN <<>> ELSE st.key_frames
    IN  [key_frames |-> Append(key_frames, vertices),
         animations |-> animations,
         last_frame_name |-> Some(curr_name)]

\* the flush after the loop (lines 360-365)
FinalFlush(st) ==
    IF st.key_frames # <<>>
    THEN Append(st.animations,
                [name |-> st.last_frame_name[1], key_frames |-> st.key_frames])
    ELSE st.animations

RECURSIVE FramesLoop(_, _, _, _, _)
FramesLoop(f, triangles, k, off, st) ==
    IF k >= f.num_frames THEN Ok(FinalFlush(st))
    ELSE LET r == ReadRecord(f.len, off, FrameSize)
         IN  IF r = "Panic" THEN Panic
             ELSE IF r = "InvalidFormat" THEN InvalidFormat
             ELSE LET frame == f.frames[k + 1]
                      voff == off + FrameSize
                      vertices == ReadAndDecompressVertices(f.len - voff, f.num_xyz,
                                                            frame, triangles)
                  IN  IF vertices.kind # "Ok" THEN vertices
                      ELSE FramesLoop(f, triangles, k + 1,
                                      voff + f.num_xyz * VertexSize,
                                      GroupFrame(st, GetName(frame.name), vertices.val))

\* MD2::load_animations
LoadAnimations(f, triangles) ==
    IF f.num_xyz < 0 THEN InvalidFormat
    ELSE IF f.offset_frames < 0 THEN InvalidFormat
    ELSE FramesLoop(f, triangles, 0, f.offset_frames,
                    [key_frames |-> <<>>, animations |-> <<>>, last_frame_name |-> None])

-----------------------------------------------------------------------------
(* Skin discovery (MD2::find_skins).  The directory is scanned once per     *)
(* pattern, "*.pcx" before "*.png"; the files one pattern matches are       *)
(* enumerated in any order, and the HashMap is iterated in any order.       *)

Dot == "."

\* the patterns of find_skins without their "*."
Extensions == << <<"p", "c", "x">>, <<"p", "n", "g">> >>

\* glob's "*.ext": the name ends with a dot and the extension, compared case
\* by case; the star matches any characters, none included
GlobMatches(n, ext) ==
    /\ Len(n) >= Len(ext) + 1
    /\ n[Len(n) - Len(ext)] = Dot
    /\ \A i \in 1..Len(ext) : n[Len(n) - Len(ext) + i] = ext[i]

\* Path::file_stem: the name before its last dot; the whole name when it has
\* no dot or only a leading one
FileStem(n) ==
    LET dots == {i \in 1..Len(n) : n[i] = Dot}
        last == CHOOSE i \in dots : \A j \in dots : i >= j
    IN  IF dots = {} THEN n
        ELSE IF last = 1 THEN n
        ELSE Prefix(n, last - 1)

\* every order in which the elements of S can be enumerated
RECURSIVE Orderings(_)
Orderings(S) ==
    IF S = {} THEN {<<>>}
    ELSE UNION {{<<x>> \o o : o \in Orderings(S \ {x})} : x \in S}

\* the entries glob(pattern) yields for one pattern, in any order
Glob(dir, ext) == Orderings({n \in dir : GlobMatches(n, ext)})

\* mutant of OrInsert: a later path replaces the stored one (HashMap::insert)
MutOrInsertOverwrite(map, k, v) ==
    [x \in DOMAIN map \cup {k} |-> IF x = k THEN v ELSE map[x]]

\* skins.entry(name).or_insert(path)
OrInsert(map, k, v) == IF k \in DOMAIN map THEN map ELSE map @@ (k :> v)

\* the inner loop of find_skins over the entries of one pattern
RECURSIVE InsertEntries(_, _)
InsertEntries(map, entries) ==
    IF entries = <<>> THEN map
    ELSE InsertEntries(OrInsert(map, FileStem(Head(entries)), Head(entries)),
                       Tail(entries))

\* the HashMaps find_skins can build
SkinMaps(dir) ==
    { InsertEntries(InsertEntries(<<>>, pcx), png) :
        pcx \in Glob(dir, Extensions[1]), png \in Glob(dir, Extensions[2]) }

\* MD2::find_skins: the map's entries in the order the HashMap iterates them,
\* which is any order
FindSkins(dir) ==
    UNION { { [i \in 1..Len(ord) |-> [name |-> ord[i], path |-> map[ord[i]]]] :
                ord \in Orderings(DOMAIN map) } :
            map \in SkinMaps(dir) }

\* MD2::load with the skins find_skins returned
MD2Load(f, skins) ==
    LET header == HeaderFromBytes(f)
        triangles == LoadTriangles(f)
        texcoords == LoadTexcoords(f, triangles.val)
        animations == LoadAnimations(f, triangles.val)
    IN  IF header.kind # "Ok" THEN header
        ELSE IF triangles.kind # "Ok" THEN triangles
        ELSE IF texcoords.kind # "Ok" THEN texcoords
        ELSE IF animations.kind # "Ok" THEN animations
        ELSE Ok([animations |-> animations.val, texcoords |-> texcoords.val,
                 skins |-> skins])

-----------------------------------------------------------------------------
(* The animation player: MD2Component (src/src/md2.rs) *)

NoResult == [kind |-> "None", val |-> <<>>]

NoOp == [name |-> "none", arg |-> 0]

Animations == result.val.animations

Skins == result.val.skins

\* MD2Component::num_anim_frames
NumAnimFrames == Len(Animations[anim_idx + 1].key_frames)

\* mutant of Lerp: the current frame is not weighted down (self + rhs * s)
MutLerpUnweighted(a, b, t) == [i \in 1..3 |-> a[i] * TicksPerSecond + b[i] * t]

\* Vec3::lerp(self, rhs, s) with s = t / TicksPerSecond; the result is
\* multiplied by TicksPerSecond
Lerp(a, b, t) == [i \in 1..3 |-> a[i] * TicksPerSecond + (b[i] - a[i]) * t]

\* mutant of AnimateStep: a long delta skips every frame it covers
MutAnimateStepSkip(t, f, n, d) ==
    LET interp0 == t + PlaybackRate * d
        current == (f + (interp0 \div TicksPerSecond)) % n
    IN  IF interp0 >= TicksPerSecond
        THEN [interp |-> 0, current |-> current, next |-> (current + 1) % n]
        ELSE [interp |-> interp0, current |-> f, next |-> (f + 1) % n]

\* mutant of AnimateStep: the factor is not reset when the frame advances
MutAnimateStepNoReset(t, f, n, d) ==
    LET interp0 == t + PlaybackRate * d
        next0 == (f + 1) % n
    IN  IF interp0 >= TicksPerSecond
        THEN [interp |-> interp0, current |-> next0, next |-> (next0 + 1) % n]
        ELSE [interp |-> interp0, current |-> f, next |-> next0]

\* the frame cursor of animate (lines 492-502): d is delta in ticks
AnimateStep(t, f, n, d) ==
    LET interp0 == t + PlaybackRate * d
        current0 == f
        next0 == (current0 + 1) % n
    IN  IF interp0 >= TicksPerSecond
        THEN [interp |-> 0, current |-> next0, next |-> (next0 + 1) % n]
        ELSE [interp |-> interp0, current |-> current0, next |-> next0]

\* mutant of AnimateBuffer: the two frames are blended the other way round
MutAnimateBufferSwapped(key_frames, current, next, t) ==
    LET curr_v == key_frames[current + 1]
        next_v == key_frames[next + 1]
    IN  [i \in 1..Len(curr_v) |-> Lerp(next_v[i], curr_v[i], t)]

\* the buffer of animate (lines 504-512)
AnimateBuffer(key_frames, current, next, t) ==
    LET curr_v == key_frames[current + 1]
        next_v == key_frames[next + 1]
    IN  [i \in 1..Len(curr_v) |-> Lerp(curr_v[i], next_v[i], t)]

\* MD2Component::load: MD2::load(..).unwrap(), then a random skin and clip
Load ==
    /\ pc = "start"
    /\ \E skins \in FindSkins(file.dir) :
         LET md2 == MD2Load(file, skins)
         IN  IF md2.kind = "Ok" /\ md2.val.skins # <<>> /\ md2.val.animations # <<>>
             THEN /\ pc' = "ready"
                  /\ result' = md2
                  /\ skin_idx' \in 0..(Len(md2.val.skins) - 1)
                  /\ anim_idx' \in 0..(Len(md2.val.animations) - 1)
                  /\ materials' = [i \in 1..Len(md2.val.skins) |-> 0]
             ELSE /\ pc' = "failed"
                  /\ result' = md2
                  /\ UNCHANGED <<skin_idx, anim_idx, materials>>
    /\ curr_frame' = 0
    /\ interp' = 0
    /\ op' = [name |-> "load", arg |-> 0]
    /\ UNCHANGED <<file, assets, out, field, name,
                   data, image, rle, alloc,
                   found, mat3d, schedule>>

\* MD2Component::animate
Animate(d) ==
    /\ pc = "ready"
    /\ LET a == AnimateStep(interp, curr_frame, NumAnimFrames, d)
       IN  /\ interp' = a.interp
           /\ curr_frame' = a.current
           /\ out' = AnimateBuffer(Animations[anim_idx + 1].key_frames,
                                   a.current, a.next, a.interp)
    /\ op' = [name |-> "animate", arg |-> d]
    /\ UNCHANGED <<pc, file, result, anim_idx, skin_idx, materials, assets, field, name,
                   data, image, rle, alloc,
                   found, mat3d, schedule>>

\* mutant of SetAnimIdxState: the frame index is kept
MutSetAnimIdxKeepFrame(idx) == [anim_idx |-> idx, curr_frame |-> curr_frame, interp |-> 0]

\* mutant of SetAnimIdxState: the interpolation factor is kept
MutSetAnimIdxKeepInterp(idx) == [anim_idx |-> idx, curr_frame |-> 0, interp |-> interp]

\* the state MD2Component::set_anim_idx leaves
SetAnimIdxState(idx) == [anim_idx |-> idx, curr_frame |-> 0, interp |-> 0]

SetAnimIdxCall(idx) ==
    LET s == SetAnimIdxState(idx)
    IN  /\ anim_idx' = s.anim_idx
        /\ curr_frame' = s.curr_frame
        /\ interp' = s.interp

\* MD2Component::set_anim_idx
SetAnimIdx(idx) ==
    /\ pc = "ready"
    /\ idx < Len(Animations)
    /\ SetAnimIdxCall(idx)
    /\ op' = [name |-> "set_anim_idx", arg |-> idx]
    /\ UNCHANGED <<pc, file, result, skin_idx, materials, assets, out, field, name,
                   data, image, rle, alloc,
                   found, mat3d, schedule>>

\* MD2Component::next_anim
NextAnim ==
    /\ pc = "ready"
    /\ SetAnimIdxCall((anim_idx + 1) % Len(Animations))
    /\ op' = [name |-> "next_anim", arg |-> 0]
    /\ UNCHANGED <<pc, file, result, skin_idx, materials, assets, out, field, name,
                   data, image, rle, alloc,
                   found, mat3d, schedule>>

\* mutant of SetSkinIdxState: a material is added on every selection
MutSetSkinIdxAlwaysAdd(idx) ==
    [skin_idx |-> idx,
     materials |-> [materials EXCEPT ![idx + 1] = assets + 1],
     assets |-> assets + 1,
     mat3d |-> assets + 1]

\* the state MD2Component::set_skin_idx leaves and the handle it returns: a
\* handle is the number of the material in Assets<StandardMaterial>, and
\* materials.add gives the new material the next number
SetSkinIdxState(idx) ==
    LET stored == IF materials[idx + 1] = 0
                  THEN [materials EXCEPT ![idx + 1] = assets + 1]
                  ELSE materials
    IN  [skin_idx |-> idx,
         materials |-> stored,
         assets |-> IF materials[idx + 1] = 0 THEN assets + 1 ELSE assets,
         mat3d |-> stored[idx + 1]]

SetSkinIdxCall(idx) ==
    LET s == SetSkinIdxState(idx)
    IN  /\ skin_idx' = s.skin_idx
        /\ materials' = s.materials
        /\ assets' = s.assets
        /\ mat3d' = s.mat3d

\* MD2Component::set_skin_idx
SetSkinIdx(idx) ==
    /\ pc = "ready"
    /\ idx < Len(Skins)
    /\ SetSkinIdxCall(idx)
    /\ op' = [name |-> "set_skin_idx", arg |-> idx]
    /\ UNCHANGED <<pc, file, result, anim_idx, curr_frame, interp, out, field, name,
                   data, image, rle, alloc, found, schedule>>

\* MD2Component::next_skin
NextSkin ==
    /\ pc = "ready"
    /\ SetSkinIdxCall((skin_idx + 1) % Len(Skins))
    /\ op' = [name |-> "next_skin", arg |-> 0]
    /\ UNCHANGED <<pc, file, result, anim_idx, curr_frame, interp, out, field, name,
                   data, image, rle, alloc, found, schedule>>

\* the files a component is loaded from: well laid out, one triangle, any
\* sequence of at most MaxFrames frame names
PlayFields == {FieldRun1, FieldIdle1}

PlayTriangle == [vertex |-> <<0, 1, 0>>, st |-> <<1, 0, 1>>]

PlayFiles ==
    { MkFile(2, 1, <<PlayTriangle>>, 2, Len(flds), flds, DirBoth) :
        flds \in SeqsUpTo(PlayFields, MaxFrames) }

Init ==
    /\ pc = "start"
    /\ file \in PlayFiles
    /\ result = NoResult
    /\ anim_idx = 0
    /\ curr_frame = 0
    /\ interp = 0
    /\ skin_idx = 0
    /\ materials = <<>>
    /\ assets = 0
    /\ out = <<>>
    /\ op = NoOp
    /\ field = <<>>
    /\ name = <<>>
    /\ data = <<>>
    /\ image = NoResult
    /\ rle = <<>>
    /\ alloc = <<>>
    /\ found = <<>>
    /\ mat3d = 0
    /\ schedule = <<>>

Next ==
    \/ Load
    \/ \E d \in 0..MaxDelta : Animate(d)
    \/ \E idx \in 0..(Len(file.frames) - 1) : SetAnimIdx(idx)
    \/ NextAnim
    \/ \E idx \in 0..(Cardinality(file.dir) - 1) : SetSkinIdx(idx)
    \/ NextSkin

Spec == Init /\ [][Next]_vars

-----------------------------------------------------------------------------
(* SpecLoad: MD2::load on files that may be malformed *)

\* well laid out files with any sequence of at most MaxFrames frame names
NameFiles ==
    { MkFile(2, 1, <<PlayTriangle>>, 2, Len(flds), flds, DirBoth) :
        flds \in SeqsUpTo(LoadFields, MaxFrames) }

\* header counts: tex coords, triangles, vertices, frames (-1: a negative count)
Counts == (-1..MaxSt) \X (-1..MaxTris) \X (-1..MaxXyz) \X (-1..MaxFrames)

\* any counts, any triangle indices, one section offset moved, the last byte cut
LayoutFile(c, tris, p, cut) ==
    Perturb(MkFile(c[1], c[2], tris, c[3], c[4],
                   [k \in 1..Max(c[4], 0) |-> FieldRun1], DirOne), p, cut)

\* a well laid out file of two frames whose mesh is the triangles `tris`
MeshFile(tris) ==
    MkFile(MaxSt, Len(tris), tris, MaxXyz, 2, <<FieldRun1, FieldIdle1>>, DirOne)

\* a buffer shorter than the header
ShortFile(f) == [f EXCEPT !.len = HeaderSize - 1]

InitLoad ==
    /\ pc = "start"
    /\ \/ file \in NameFiles
       \/ \E f \in NameFiles : file = ShortFile(f)
       \/ \E tris \in [1..MaxMeshTris -> TriShapes] : file = MeshFile(tris)
       \/ \E c \in Counts, p \in Perturbations, cut \in 0..1 :
            \E tris \in [1..Max(c[2], 0) -> TriShapes] :
              file = LayoutFile(c, tris, p, cut)
    /\ result = NoResult
    /\ anim_idx = 0
    /\ curr_frame = 0
    /\ interp = 0
    /\ skin_idx = 0
    /\ materials = <<>>
    /\ assets = 0
    /\ out = <<>>
    /\ op = NoOp
    /\ field = <<>>
    /\ name = <<>>
    /\ data = <<>>
    /\ image = NoResult
    /\ rle = <<>>
    /\ alloc = <<>>
    /\ found = <<>>
    /\ mat3d = 0
    /\ schedule = <<>>

\* MD2::load
Decode ==
    /\ pc = "start"
    /\ \E skins \in FindSkins(file.dir) : result' = MD2Load(file, skins)
    /\ pc' = "decoded"
    /\ UNCHANGED <<file, anim_idx, curr_frame, interp, skin_idx, materials, assets,
                   out, op, field, name,
                   data, image, rle, alloc,
                   found, mat3d, schedule>>

NextLoad == Decode

SpecLoad == InitLoad /\ [][NextLoad]_vars

-----------------------------------------------------------------------------
(* SpecName: Frame::get_name on 16-byte name fields *)

InitName ==
    /\ pc = "field"
    /\ field \in AllFields
    /\ file = <<>>
    /\ result = NoResult
    /\ anim_idx = 0
    /\ curr_frame = 0
    /\ interp = 0
    /\ skin_idx = 0
    /\ materials = <<>>
    /\ assets = 0
    /\ out = <<>>
    /\ op = NoOp
    /\ name = <<>>
    /\ data = <<>>
    /\ image = NoResult
    /\ rle = <<>>
    /\ alloc = <<>>
    /\ found = <<>>
    /\ mat3d = 0
    /\ schedule = <<>>

\* both decoder variants derive the clip name of the field
DeriveName ==
    /\ pc = "field"
    /\ name' = [md2 |-> GetName(field), lib |-> GetNameLib(field)]
    /\ pc' = "named"
    /\ UNCHANGED <<file, result, anim_idx, curr_frame, interp, skin_idx, materials,
                   assets, out, op, field, data, image, rle, alloc,
                   found, mat3d, schedule>>

NextName == DeriveName

SpecName == InitName /\ [][NextName]_vars

-----------------------------------------------------------------------------
(* Fixed-width unsigned integers (src/src/pcx.rs).  A u16, u32 or usize     *)
(* value is the sequence of its bytes, least significant first, as          *)
(* u16::from_le_bytes reads it: the width of every value is kept.           *)

U32Bytes == 4
UsizeBytes == 8
ByteValues == 256

\* the natural number n as a word of w bytes (n modulo 256^w)
RECURSIVE Word(_, _)
Word(n, w) == IF w = 0 THEN <<>> ELSE <<n % ByteValues>> \o Word(n \div ByteValues, w - 1)

\* `x as u32`, `x as usize` for an unsigned x that is not wider
Widen(a, w) == a \o Word(0, w - Len(a))

\* the number a word holds, for words below 256^3
RECURSIVE Value(_)
Value(a) == IF a = <<>> THEN 0 ELSE a[1] + ByteValues * Value(Tail(a))

IsZero(a) == \A i \in 1..Len(a) : a[i] = 0

\* a < b for two words of one width
RECURSIVE LessFrom(_, _, _)
LessFrom(a, b, i) ==
    IF i = 0 THEN FALSE
    ELSE IF a[i] # b[i] THEN a[i] < b[i]
    ELSE LessFrom(a, b, i - 1)

Less(a, b) == LessFrom(a, b, Len(a))

\* the digits of a + b from digit i on, followed by the carry out
RECURSIVE AddFrom(_, _, _, _)
AddFrom(a, b, i, carry) ==
    IF i > Len(a) THEN <<carry>>
    ELSE LET s == a[i] + b[i] + carry
         IN  <<s % ByteValues>> \o AddFrom(a, b, i + 1, s \div ByteValues)

WrappingAdd(a, b) == SubSeq(AddFrom(a, b, 1, 0), 1, Len(a))

AddOverflows(a, b) == AddFrom(a, b, 1, 0)[Len(a) + 1] = 1

\* the digits of a - b from digit i on, followed by the borrow out
RECURSIVE SubFrom(_, _, _, _)
SubFrom(a, b, i, borrow) ==
    IF i > Len(a) THEN <<borrow>>
    ELSE LET d == a[i] - b[i] - borrow
         IN  <<d % ByteValues>> \o SubFrom(a, b, i + 1, IF d < 0 THEN 1 ELSE 0)

WrappingSub(a, b) == SubSeq(SubFrom(a, b, 1, 0), 1, Len(a))

SubOverflows(a, b) == SubFrom(a, b, 1, 0)[Len(a) + 1] = 1

\* the sum of the digit products a[i] * b[j] of weight 256^(k-1)
RECURSIVE Column(_, _, _, _)
Column(a, b, k, i) ==
    IF i = 0 THEN 0
    ELSE (IF k + 1 - i >= 1 /\ k + 1 - i <= Len(b) THEN a[i] * b[k + 1 - i] ELSE 0)
         + Column(a, b, k, i - 1)

\* digits k..n of the product a * b
RECURSIVE MulFrom(_, _, _, _, _)
MulFrom(a, b, k, carry, n) ==
    IF k > n THEN <<>>
    ELSE LET s == Column(a, b, k, Len(a)) + carry
         IN  <<s % ByteValues>> \o MulFrom(a, b, k + 1, s \div ByteValues, n)

\* the exact product, of twice the width
FullMul(a, b) == MulFrom(a, b, 1, 0, 2 * Len(a))

WrappingMul(a, b) == MulFrom(a, b, 1, 0, Len(a))

MulOverflows(a, b) == ~IsZero(SubSeq(FullMul(a, b), Len(a) + 1, 2 * Len(a)))

\* the digits of a * n from digit i on, for a number n below 256^3, followed
\* by the carry out
RECURSIVE ScaleFrom(_, _, _, _)
ScaleFrom(a, n, i, carry) ==
    IF i > Len(a) THEN <<carry>>
    ELSE LET s == a[i] * n + carry
         IN  <<s % ByteValues>> \o ScaleFrom(a, n, i + 1, s \div ByteValues)

\* a * n in the width of a, wrapping
Scale(a, n) == SubSeq(ScaleFrom(a, n, 1, 0), 1, Len(a))

-----------------------------------------------------------------------------
(* PCX decoding (src/src/pcx.rs).  A buffer is the sequence of its bytes;   *)
(* the byte the code calls data[i] is element i + 1 of the sequence.        *)

HDR_BYTES == 128
PaletteTrailer == 769
PaletteMarker == 12
Manufacturer == 10
RunMarker == 192
CountMask == 63
Opaque == 255

\* Err(PcxLoaderError::InvalidFormat(text)); args are the values formatted
\* into the text
PcxError(text, args) == [kind |-> "InvalidFormat", val |-> [text |-> text, args |-> args]]

\* data[i]
At(bytes, i) == bytes[i + 1]

\* &data[from..to]
Slice(bytes, from, to) == SubSeq(bytes, from + 1, to)

\* mutant of RleLoop: a run marker repeats the value once more than its count
RECURSIVE MutRleLoopCountPlusOne(_, _, _, _)
MutRleLoopCountPlusOne(bytes, total_bytes, i, decompressed) ==
    IF ~(i < Len(bytes) /\ Less(Word(Len(decompressed), UsizeBytes), total_bytes))
    THEN Ok(decompressed)
    ELSE LET byte == At(bytes, i)
         IN  IF byte >= RunMarker
             THEN LET count == (byte % (CountMask + 1)) + 1
                  IN  IF i + 1 >= Len(bytes)
                      THEN PcxError("Unexpected end of data", <<>>)
                      ELSE MutRleLoopCountPlusOne(bytes, total_bytes, i + 2,
                              decompressed \o [k \in 1..count |-> At(bytes, i + 1)])
             ELSE MutRleLoopCountPlusOne(bytes, total_bytes, i + 1,
                                         Append(decompressed, byte))

\* mutant of RleLoop: a run marker at the end of the input ends the output
RECURSIVE MutRleLoopDropDangling(_, _, _, _)
MutRleLoopDropDangling(bytes, total_bytes, i, decompressed) ==
    IF ~(i < Len(bytes) /\ Less(Word(Len(decompressed), UsizeBytes), total_bytes))
    THEN Ok(decompressed)
    ELSE LET byte == At(bytes, i)
         IN  IF byte >= RunMarker
             THEN LET count == byte % (CountMask + 1)
                  IN  IF i + 1 >= Len(bytes)
                      THEN Ok(decompressed)
                      ELSE MutRleLoopDropDangling(bytes, total_bytes, i + 2,
                              decompressed \o [k \in 1..count |-> At(bytes, i + 1)])
             ELSE MutRleLoopDropDangling(bytes, total_bytes, i + 1,
                                         Append(decompressed, byte))

\* the loop of decompress_rle_data: i is the read position; byte & 0x3F is the
\* remainder of byte modulo 0x3F + 1
RECURSIVE RleLoop(_, _, _, _)
RleLoop(bytes, total_bytes, i, decompressed) ==
    IF ~(i < Len(bytes) /\ Less(Word(Len(decompressed), UsizeBytes), total_bytes))
    THEN Ok(decompressed)
    ELSE LET byte == At(bytes, i)
         IN  IF byte >= RunMarker
             THEN LET count == byte % (CountMask + 1)
                  IN  IF i + 1 >= Len(bytes)
                      THEN PcxError("Unexpected end of data", <<>>)
                      ELSE RleLoop(bytes, total_bytes, i + 2,
                                   decompressed \o [k \in 1..count |-> At(bytes, i + 1)])
             ELSE RleLoop(bytes, total_bytes, i + 1, Append(decompressed, byte))

\* decompress_rle_data(data, total_bytes): total_bytes is a usize
DecompressRleData(bytes, total_bytes) == RleLoop(bytes, total_bytes, 0, <<>>)

\* the record of one call of decompress_rle_data
RleCall(bytes, total_bytes, ret) == [input |-> bytes, total_bytes |-> total_bytes, ret |-> ret]

-----------------------------------------------------------------------------
(* parse_pcx and the two pixel decoders.  usize is 64 bits wide.  The row   *)
(* and column counters, offsets into the file and into the decompressed     *)
(* bytes are plain numbers (they stay below 256^3 for the buffers of the    *)
(* model); width, height, total_bytes, dst_idx and the length of the RGBA   *)
(* buffer are words.                                                        *)

BytesPerPixel == 4
PaletteStride == 3

\* u16::from_le_bytes([data[i], data[i + 1]])
U16At(bytes, i) == <<At(bytes, i), At(bytes, i + 1)>>

\* a u32 operation: it panics on overflow in a build with overflow checks
\* (debug) and wraps in a build without (release)
Arith(val, overflows, overflow_checks) ==
    IF overflows /\ overflow_checks THEN Panic ELSE Ok(val)

\* vec![0u8; len]: `at` holds the bytes assigned since, every other byte is 0
NewBuffer(len) == [len |-> len, at |-> <<>>]

ByteOf(buffer, i) == IF i \in DOMAIN buffer.at THEN buffer.at[i] ELSE 0

\* (y * width as usize + x) * 4
DstIdx(y, x, width) ==
    Scale(WrappingAdd(Scale(Widen(width, UsizeBytes), y), Word(x, UsizeBytes)),
          BytesPerPixel)

\* mutant of WritePixel: alpha is left at the 0 the buffer was allocated with
MutWritePixelNoAlpha(output, dst_idx, r, g, b) ==
    IF ~Less(WrappingAdd(dst_idx, Word(BytesPerPixel - 1, UsizeBytes)), output.len)
    THEN Panic
    ELSE LET d == Value(dst_idx)
             px == (d :> r) @@ (d + 1 :> g) @@ (d + 2 :> b)
         IN  Ok([output EXCEPT !.at = px @@ @])

\* output[dst_idx] = r; output[dst_idx + 1] = g; output[dst_idx + 2] = b;
\* output[dst_idx + 3] = 255: an index outside the buffer panics
WritePixel(output, dst_idx, r, g, b) ==
    IF ~Less(WrappingAdd(dst_idx, Word(BytesPerPixel - 1, UsizeBytes)), output.len)
    THEN Panic
    ELSE LET d == Value(dst_idx)
             px == (d :> r) @@ (d + 1 :> g) @@ (d + 2 :> b) @@ (d + 3 :> Opaque)
         IN  Ok([output EXCEPT !.at = px @@ @])

\* mutant of PaletteIdx: the three bytes of a palette entry are not skipped
MutPaletteIdxNoStride(index) == index

\* decompressed[src_idx] as usize * 3
PaletteIdx(index) == index * PaletteStride

\* the pixel loops of decode_8bit_indexed, at row y and column x
RECURSIVE IndexedLoop(_, _, _, _, _, _, _, _)
IndexedLoop(output, width, height, bytes_per_line, decompressed, palette, y, x) ==
    IF ~Less(Word(y, UsizeBytes), Widen(height, UsizeBytes)) THEN Ok(output)
    ELSE IF ~Less(Word(x, UsizeBytes), Widen(width, UsizeBytes))
    THEN IndexedLoop(output, width, height, bytes_per_line, decompressed, palette,
                     y + 1, 0)
    ELSE LET src_idx == y * bytes_per_line + x
         IN  IF src_idx >= Len(decompressed)
             THEN PcxError("Insufficient data", <<>>)
             ELSE LET palette_idx == PaletteIdx(At(decompressed, src_idx))
                  IN  IF palette_idx + 2 >= Len(palette)
                      THEN PcxError("Invalid palette index", <<>>)
                      ELSE LET w == WritePixel(output, DstIdx(y, x, width),
                                               At(palette, palette_idx),
                                               At(palette, palette_idx + 1),
                                               At(palette, palette_idx + 2))
                           IN  IF w.kind # "Ok" THEN w
                               ELSE IndexedLoop(w.val, width, height, bytes_per_line,
                                                decompressed, palette, y, x + 1)

\* decode_8bit_indexed.  With width 0 no row holds a pixel: the loops end
\* without a read or a write.
Decode8bitIndexed(bytes, output, width, height, bytes_per_line) ==
    IF Len(bytes) < PaletteTrailer
    THEN [ret |-> PcxError("File too small for palette", <<>>), rle |-> <<>>]
    ELSE LET palette_offset == Len(bytes) - PaletteTrailer
         IN  IF At(bytes, palette_offset) # PaletteMarker
             THEN [ret |-> PcxError("Invalid palette marker", <<>>), rle |-> <<>>]
             ELSE IF palette_offset < HDR_BYTES
             THEN [ret |-> Panic, rle |-> <<>>]
             ELSE LET palette == Slice(bytes, palette_offset + 1, Len(bytes))
                      compressed == Slice(bytes, HDR_BYTES, palette_offset)
                      total_bytes == Scale(Widen(height, UsizeBytes), bytes_per_line)
                      decompressed == DecompressRleData(compressed, total_bytes)
                      call == RleCall(compressed, total_bytes, decompressed)
                  IN  IF decompressed.kind # "Ok"
                      THEN [ret |-> decompressed, rle |-> call]
                      ELSE IF IsZero(width) THEN [ret |-> Ok(output), rle |-> call]
                      ELSE [ret |-> IndexedLoop(output, width, height, bytes_per_line,
                                                decompressed.val, palette, 0, 0),
                            rle |-> call]

\* the pixel loops of decode_24bit_rgb, at row y and column x
RECURSIVE RgbLoop(_, _, _, _, _, _, _, _)
RgbLoop(output, width, height, bytes_per_line, planes, decompressed, y, x) ==
    IF ~Less(Word(y, UsizeBytes), Widen(height, UsizeBytes)) THEN Ok(output)
    ELSE IF ~Less(Word(x, UsizeBytes), Widen(width, UsizeBytes))
    THEN RgbLoop(output, width, height, bytes_per_line, planes, decompressed, y + 1, 0)
    ELSE LET scanline_offset == y * bytes_per_line * planes
             r_offset == scanline_offset + x
             g_offset == scanline_offset + bytes_per_line + x
             b_offset == scanline_offset + bytes_per_line * 2 + x
         IN  IF b_offset >= Len(decompressed)
             THEN PcxError("Insufficient RGB data", <<>>)
             ELSE LET w == WritePixel(output, DstIdx(y, x, width),
                                      At(decompressed, r_offset),
                                      At(decompressed, g_offset),
                                      At(decompressed, b_offset))
                  IN  IF w.kind # "Ok" THEN w
                      ELSE RgbLoop(w.val, width, height, bytes_per_line, planes,
                                   decompressed, y, x + 1)

\* decode_24bit_rgb
Decode24bitRgb(bytes, output, width, height, bytes_per_line, planes) ==
    LET compressed == Slice(bytes, HDR_BYTES, Len(bytes))
        total_bytes == Scale(Widen(height, UsizeBytes), bytes_per_line * planes)
        decompressed == DecompressRleData(compressed, total_bytes)
        call == RleCall(compressed, total_bytes, decompressed)
    IN  IF decompressed.kind # "Ok" THEN [ret |-> decompressed, rle |-> call]
        ELSE IF IsZero(width) THEN [ret |-> Ok(output), rle |-> call]
        ELSE [ret |-> RgbLoop(output, width, height, bytes_per_line, planes,
                              decompressed.val, 0, 0),
              rle |-> call]

\* decode_pcx_data
DecodePcxData(bytes, output, width, height) ==
    IF Len(bytes) < HDR_BYTES
    THEN [ret |-> PcxError("Header too small", <<>>), rle |-> <<>>]
    ELSE LET encoding == At(bytes, 2)
             bits_per_pixel == At(bytes, 3)
             planes == At(bytes, 65)
             bytes_per_line == Value(U16At(bytes, 66))
         IN  IF encoding # 1
             THEN [ret |-> PcxError("Only RLE encoding is supported", <<>>), rle |-> <<>>]
             ELSE IF bits_per_pixel = 8 /\ planes = 1
             THEN Decode8bitIndexed(bytes, output, width, height, bytes_per_line)
             ELSE IF bits_per_pixel = 8 /\ planes \in {3, 4}
             THEN Decode24bitRgb(bytes, output, width, height, bytes_per_line, planes)
             ELSE [ret |-> PcxError("Unsupported PCX format", <<bits_per_pixel, planes>>),
                   rle |-> <<>>]

\* max - min + 1 in u32
Extent(max, min, overflow_checks) ==
    LET d == Arith(WrappingSub(max, min), SubOverflows(max, min), overflow_checks)
        one == Word(1, U32Bytes)
    IN  IF d.kind # "Ok" THEN d
        ELSE Arith(WrappingAdd(d.val, one), AddOverflows(d.val, one), overflow_checks)

\* width * height * 4 in u32
BufferLen(width, height, overflow_checks) ==
    LET wh == Arith(WrappingMul(width, height), MulOverflows(width, height),
                    overflow_checks)
        four == Word(BytesPerPixel, U32Bytes)
    IN  IF wh.kind # "Ok" THEN wh
        ELSE Arith(WrappingMul(wh.val, four), MulOverflows(wh.val, four), overflow_checks)

\* what parse_pcx leaves when it ends before the buffer is allocated
Unallocated(ret) == [ret |-> ret, rle |-> <<>>, alloc |-> <<>>]

\* parse_pcx: ret is what it returns, rle the call of decompress_rle_data it
\* made, alloc the width, height and length of the buffer it allocated
ParsePcx(bytes, overflow_checks) ==
    IF Len(bytes) < HDR_BYTES
    THEN Unallocated(PcxError("File too small to be valid PCX", <<>>))
    ELSE IF At(bytes, 0) # Manufacturer
    THEN Unallocated(PcxError("Not a valid PCX file", <<>>))
    ELSE LET xmin == Widen(U16At(bytes, 4), U32Bytes)
             ymin == Widen(U16At(bytes, 6), U32Bytes)
             xmax == Widen(U16At(bytes, 8), U32Bytes)
             ymax == Widen(U16At(bytes, 10), U32Bytes)
             width == Extent(xmax, xmin, overflow_checks)
             height == Extent(ymax, ymin, overflow_checks)
         IN  IF width.kind # "Ok" THEN Unallocated(width)
             ELSE IF height.kind # "Ok" THEN Unallocated(height)
             ELSE LET len == BufferLen(width.val, height.val, overflow_checks)
                  IN  IF len.kind # "Ok" THEN Unallocated(len)
                      ELSE LET rgba_data == NewBuffer(Widen(len.val, UsizeBytes))
                               decoded == DecodePcxData(bytes, rgba_data, width.val,
                                                        height.val)
                           IN  [ret |-> IF decoded.ret.kind # "Ok" THEN decoded.ret
                                        ELSE Ok([width |-> width.val,
                                                 height |-> height.val,
                                                 data |-> decoded.ret.val]),
                                rle |-> decoded.rle,
                                alloc |-> [width |-> width.val, height |-> height.val,
                                           len |-> rgba_data.len]]

-----------------------------------------------------------------------------
(* SpecRle: decompress_rle_data on byte strings *)

MaxRle == 4
MaxTotal == 4

\* literals (5, 0xBF), run markers of count 0, 2, 3 and 63 (0xFF, also a value)
RleAlphabet == {5, 191, 192, 194, 195, 255}

\* requested lengths: 0..MaxTotal and one that no input of the model reaches
TotalBytes == {Word(t, UsizeBytes) : t \in 0..MaxTotal} \cup {<<0, 0, 0, 0, 1, 0, 0, 0>>}

InitRle ==
    /\ pc = "start"
    /\ data \in SeqsUpTo(RleAlphabet, MaxRle)
    /\ \E total_bytes \in TotalBytes : rle = RleCall(data, total_bytes, NoResult)
    /\ image = NoResult
    /\ alloc = <<>>
    /\ found = <<>>
    /\ mat3d = 0
    /\ schedule = <<>>
    /\ file = <<>>
    /\ result = NoResult
    /\ anim_idx = 0
    /\ curr_frame = 0
    /\ interp = 0
    /\ skin_idx = 0
    /\ materials = <<>>
    /\ assets = 0
    /\ out = <<>>
    /\ op = NoOp
    /\ field = <<>>
    /\ name = <<>>

Expand ==
    /\ pc = "start"
    /\ rle' = [rle EXCEPT !.ret = DecompressRleData(rle.input, rle.total_bytes)]
    /\ pc' = "expanded"
    /\ UNCHANGED <<file, result, anim_idx, curr_frame, interp, skin_idx, materials,
                   assets, out, op, field, name, data, image, alloc,
                   found, mat3d, schedule>>

NextRle == Expand

SpecRle == InitRle /\ [][NextRle]_vars

-----------------------------------------------------------------------------
(* SpecPcx: PcxLoader::load / parse_pcx on whole files *)

MaxDim == 2
MaxBody == 3
U16Max == 65535

\* a 128-byte header: h.box is <<xmin, ymin, xmax, ymax>>, h.fill the bytes of
\* the 16-colour palette field (offsets 16..63)
HeaderByte(h, i) ==
    CASE i = 0 -> h.manufacturer
      [] i = 1 -> 5
      [] i = 2 -> h.encoding
      [] i = 3 -> h.bits_per_pixel
      [] i \in 4..11 -> Word(h.box[((i - 4) \div 2) + 1], 2)[(i % 2) + 1]
      [] i \in 16..63 -> h.fill
      [] i = 65 -> h.planes
      [] i \in 66..67 -> Word(h.bytes_per_line, 2)[i - 65]
      [] OTHER -> 0

PcxHeader(h) == [k \in 1..HDR_BYTES |-> HeaderByte(h, k - 1)]

\* the header of an RLE-encoded 8-bit image
GoodHeader(planes, box, bytes_per_line) ==
    [manufacturer |-> Manufacturer, encoding |-> 1, bits_per_pixel |-> 8,
     box |-> box, planes |-> planes, bytes_per_line |-> bytes_per_line, fill |-> 0]

\* the bounding box of a w x h image
Box(w, h) == <<0, 0, w - 1, h - 1>>

\* 256 palette entries, no two of them equal
PaletteBytes == [i \in 1..(PaletteTrailer - 1) |-> (7 * (i - 1) + 10) % ByteValues]

\* the palette trailer, which follows the pixels of an indexed image only
Trailer(planes) == IF planes = 1 THEN <<PaletteMarker>> \o PaletteBytes ELSE <<>>

\* pixel bytes: a literal, a run marker of count 2 and 0xFF (a run marker of
\* count 63, or the value 255)
PcxAlphabet == {5, 194, 255}

\* header fields the decoder rejects or accepts
HeaderKinds ==
    [manufacturer : {Manufacturer, Manufacturer + 1}, encoding : 0..2,
     bits_per_pixel : {1, 8, 24}, box : {Box(1, 1), <<1, 0, 0, 0>>},
     planes : 0..5, bytes_per_line : {1}, fill : {0}]

CoordValues == {0, 1, 2, U16Max}

\* buffer lengths around the header and the palette trailer
TrailerLengths ==
    {HDR_BYTES, PaletteTrailer - 1, PaletteTrailer, PaletteTrailer + 4,
     PaletteTrailer + 16, HDR_BYTES + PaletteTrailer - 1, HDR_BYTES + PaletteTrailer,
     HDR_BYTES + PaletteTrailer + 1}

InitPcx ==
    /\ pc = "start"
    /\ \/ \E w \in 1..MaxDim, h \in 1..MaxDim, bytes_per_line \in 0..(MaxDim + 1),
             body \in SeqsUpTo(PcxAlphabet, MaxBody), marker \in {PaletteMarker, 0} :
            data = PcxHeader(GoodHeader(1, Box(w, h), bytes_per_line))
                   \o body \o <<marker>> \o PaletteBytes
       \/ \E planes \in 3..4, w \in 1..MaxDim, h \in 1..MaxDim,
             bytes_per_line \in 0..(MaxDim + 1), body \in SeqsUpTo(PcxAlphabet, MaxBody) :
            data = PcxHeader(GoodHeader(planes, Box(w, h), bytes_per_line)) \o body
       \/ \E h \in HeaderKinds :
            \/ data = PcxHeader(h) \o <<5, 5, 5>> \o Trailer(h.planes)
            \/ data = SubSeq(PcxHeader(h), 1, HDR_BYTES - 1)
       \/ \E box \in CoordValues \X CoordValues \X CoordValues \X CoordValues,
             planes \in {1, 3} :
            data = PcxHeader(GoodHeader(planes, box, 1)) \o <<5, 5, 5>> \o Trailer(planes)
       \/ \E len \in TrailerLengths, fill \in {0, PaletteMarker}, t \in {5, PaletteMarker},
             box \in {Box(1, 1), <<PaletteMarker, 0, PaletteMarker, 0>>} :
            data = PcxHeader([GoodHeader(1, box, 1) EXCEPT !.fill = fill])
                   \o [k \in 1..(len - HDR_BYTES) |-> t]
    /\ image = NoResult
    /\ rle = <<>>
    /\ alloc = <<>>
    /\ found = <<>>
    /\ mat3d = 0
    /\ schedule = <<>>
    /\ file = <<>>
    /\ result = NoResult
    /\ anim_idx = 0
    /\ curr_frame = 0
    /\ interp = 0
    /\ skin_idx = 0
    /\ materials = <<>>
    /\ assets = 0
    /\ out = <<>>
    /\ op = NoOp
    /\ field = <<>>
    /\ name = <<>>

\* PcxLoader::load: parse_pcx on the bytes read, in a build with or without
\* overflow checks
LoadPcx ==
    /\ pc = "start"
    /\ \E overflow_checks \in BOOLEAN :
         \E parsed \in {ParsePcx(data, overflow_checks)} :
             /\ image' = parsed.ret
             /\ rle' = parsed.rle
             /\ alloc' = parsed.alloc
    /\ pc' = "parsed"
    /\ UNCHANGED <<file, result, anim_idx, curr_frame, interp, skin_idx, materials,
                   assets, out, op, field, name, data,
                   found, mat3d, schedule>>

NextPcx == LoadPcx

SpecPcx == InitPcx /\ [][NextPcx]_vars

-----------------------------------------------------------------------------
(* SpecSkins: MD2::find_skins on the directory of a model *)

MaxDirSize == 3

FooBarPcx == <<"f", "o", "o", ".", "b", "a", "r", ".", "p", "c", "x">>
FooPcxPng == <<"f", "o", "o", ".", "p", "c", "x", ".", "p", "n", "g">>
FooUpperPcx == <<"f", "o", "o", ".", "P", "C", "X">>
TrisMd2 == <<"t", "r", "i", "s", ".", "m", "d", "2">>
PcxNoDot == <<"p", "c", "x">>

\* the names a directory of the model is made of
DirNames ==
    {FooPcx, FooPng, BarPcx, BarPng, FooBarPcx, FooPcxPng, FooUpperPcx, TrisMd2,
     PcxNoDot}

InitSkins ==
    /\ pc = "dir"
    /\ \E d \in SUBSET DirNames : Cardinality(d) <= MaxDirSize /\ file = [dir |-> d]
    /\ result = NoResult
    /\ anim_idx = 0
    /\ curr_frame = 0
    /\ interp = 0
    /\ skin_idx = 0
    /\ materials = <<>>
    /\ assets = 0
    /\ out = <<>>
    /\ op = NoOp
    /\ field = <<>>
    /\ name = <<>>
    /\ data = <<>>
    /\ image = NoResult
    /\ rle = <<>>
    /\ alloc = <<>>
    /\ found = <<>>
    /\ mat3d = 0
    /\ schedule = <<>>

\* MD2::find_skins
ScanSkins ==
    /\ pc = "dir"
    /\ found' \in FindSkins(file.dir)
    /\ pc' = "scanned"
    /\ UNCHANGED <<file, result, anim_idx, curr_frame, interp, skin_idx, materials,
                   assets, out, op, field, name, data, image, rle, alloc, mat3d, schedule>>

NextSkins == ScanSkins

SpecSkins == InitSkins /\ [][NextSkins]_vars

-----------------------------------------------------------------------------
(* SpecPlay: animate is called on every frame, with the deltas of a         *)
(* schedule.  Here interp and the deltas are f32 values with the rounding   *)
(* of f32: a value is its numerator over F32One, so the grid of the model   *)
(* is 2^-28; an f32 has F32Digits significant bits and a sum is rounded to  *)
(* the nearest f32, a tie to the even significand.                          *)

F32Digits == 24

F32One == 2 ^ 28

\* the largest power of two that is at most s, for s >= p
RECURSIVE Binade(_, _)
Binade(s, p) == IF 2 * p > s THEN p ELSE Binade(s, 2 * p)

\* the distance between neighbouring f32 values around s; below
\* 2^(F32Digits - 1) grid units every value of the grid is an f32
Ulp(s) ==
    LET b == Binade(s, 1)
        full == 2 ^ (F32Digits - 1)
    IN  IF b < full THEN 1 ELSE b \div full

\* the f32 nearest to s, the one with the even significand on a tie
RoundF32(s) ==
    IF s = 0 THEN 0
    ELSE LET u == Ulp(s)
             q == s \div u
             r == s % u
         IN  IF 2 * r < u THEN q * u
             ELSE IF 2 * r > u THEN (q + 1) * u
             ELSE IF q % 2 = 0 THEN q * u
             ELSE (q + 1) * u

\* the frame cursor of animate (lines 493-502) once interp0 is the f32 sum of
\* line 492
CursorF32(interp0, f, n) ==
    LET current0 == f
        next0 == (current0 + 1) % n
    IN  IF interp0 >= F32One
        THEN [interp |-> 0, current |-> next0, next |-> (next0 + 1) % n]
        ELSE [interp |-> interp0, current |-> current0, next |-> next0]

\* the buffer of animate (lines 504-512): curr_v[i].lerp(next_v[i], interp)
\* for every i, kept as the arguments of the blend
BlendF32(key_frames, current, next, t) ==
    [curr_v |-> key_frames[current + 1], next_v |-> key_frames[next + 1], s |-> t]

\* the delta of the next call
NextDelta == IF schedule.first # <<>> THEN Head(schedule.first) ELSE schedule.fixed

\* MD2Component::animate, called by the per-frame system with the next delta:
\* the product 8.0 * delta and the sum with self.interp are each rounded
Tick ==
    /\ pc = "ready"
    /\ \E d \in {NextDelta} :
         \E step \in {RoundF32(PlaybackRate * d)} :
           \E interp0 \in {RoundF32(interp + step)} :
             \E a \in {CursorF32(interp0, curr_frame, NumAnimFrames)} :
               /\ interp' = a.interp
               /\ curr_frame' = a.current
               /\ out' = BlendF32(Animations[anim_idx + 1].key_frames,
                                  a.current, a.next, a.interp)
               /\ op' = [name |-> "animate", arg |-> d]
    /\ schedule' = [schedule EXCEPT !.first = IF @ = <<>> THEN @ ELSE Tail(@)]
    /\ UNCHANGED <<pc, file, result, anim_idx, skin_idx, materials, assets, field, name,
                   data, image, rle, alloc, found, mat3d>>

\* frame times of 1/32 s, 1/16 s, 1/8 s and 1/4 s
FrameDeltas == {F32One \div 32, F32One \div 16, F32One \div 8, F32One \div 4}

\* 2^-28 s: 8 * delta is half the distance between the f32 values of [0.5, 1)
SmallDelta == F32One \div (2 ^ (F32Digits + 4))

\* the runs: a fixed frame time from the first call on, or one frame of
\* 1/16 s and then the small delta for ever (from factor 0 the small delta
\* alone needs 2^24 calls to bring the factor to 0.5)
Schedules ==
    {[first |-> <<>>, fixed |-> d] : d \in FrameDeltas}
        \cup {[first |-> <<F32One \div 16>>, fixed |-> SmallDelta]}

InitPlay ==
    /\ pc = "start"
    /\ file \in PlayFiles
    /\ schedule \in Schedules
    /\ result = NoResult
    /\ anim_idx = 0
    /\ curr_frame = 0
    /\ interp = 0
    /\ skin_idx = 0
    /\ materials = <<>>
    /\ assets = 0
    /\ out = <<>>
    /\ op = NoOp
    /\ field = <<>>
    /\ name = <<>>
    /\ data = <<>>
    /\ image = NoResult
    /\ rle = <<>>
    /\ alloc = <<>>
    /\ found = <<>>
    /\ mat3d = 0

NextPlay ==
    \/ Load
    \/ Tick

\* the system that calls animate runs on every frame
SpecPlay == InitPlay /\ [][NextPlay]_vars /\ WF_vars(Tick)

-----------------------------------------------------------------------------
(* Claims about the animation player, checked under Spec *)

\* a keyframe as animate returns it at factor 0: every position times
\* TicksPerSecond
ExactFrame(v) == [i \in 1..Len(v) |-> [j \in 1..3 |-> v[i][j] * TicksPerSecond]]

KeyFramesOf(idx) == Animations[idx + 1].key_frames

\* C1: one animate(delta) call on (frame f, factor t) of a clip with n
\* keyframes leaves (f, t + 8*delta) when t + 8*delta < 1 and
\* ((f + 1) mod n, 0) when t + 8*delta >= 1, one frame however large delta
\* is, and never changes the clip index.
C1_AnimateAdvance ==
    [][op'.name = "animate" =>
         LET sum == interp + PlaybackRate * op'.arg
             n == NumAnimFrames
         IN  /\ anim_idx' = anim_idx
             /\ sum < TicksPerSecond => (curr_frame' = curr_frame /\ interp' = sum)
             /\ sum >= TicksPerSecond =>
                  (curr_frame' = (curr_frame + 1) % n /\ interp' = 0)]_vars

\* a tick of more than two frame times has moved a clip of at least three
\* keyframes from frame 0 to frame 1
C1_Witness ==
    /\ pc = "ready"
    /\ op.name = "animate"
    /\ PlaybackRate * op.arg >= 2 * TicksPerSecond
    /\ NumAnimFrames >= 3
    /\ curr_frame = 1
    /\ interp = 0

\* C2: after any sequence of animate (delta >= 0), set_anim_idx and next_anim
\* calls on a freshly loaded component, 0 <= interp < 1.
C2_InterpInUnitRange == pc = "ready" => (0 <= interp /\ interp < TicksPerSecond)

\* animate has left the largest factor below 1 the ticks allow
C2_Witness ==
    /\ pc = "ready"
    /\ op.name = "animate"
    /\ interp > 0
    /\ interp + PlaybackRate >= TicksPerSecond

\* buffer buf is a blend, with one factor in [0, 1], of two keyframes of clip idx
BlendOfClip(buf, idx) ==
    LET kfs == KeyFramesOf(idx)
    IN  \E a, b \in 1..Len(kfs), t \in 0..TicksPerSecond :
          /\ Len(buf) = Len(kfs[a])
          /\ \A i \in 1..Len(buf), j \in 1..3 :
               buf[i][j] = kfs[a][i][j] * (TicksPerSecond - t) + kfs[b][i][j] * t

\* C3: set_anim_idx(idx) leaves clip idx, frame 0, factor 0 and the skin index
\* unchanged, and the buffer of the animate call that follows is built from
\* keyframes of clip idx only.
C3_SetAnimIdxHardCut ==
    [][/\ op'.name = "set_anim_idx" =>
            /\ anim_idx' = op'.arg
            /\ curr_frame' = 0
            /\ interp' = 0
            /\ skin_idx' = skin_idx
       /\ (op.name = "set_anim_idx" /\ op'.name = "animate") =>
            BlendOfClip(out', op.arg)]_vars

\* set_anim_idx(1) was called while clip 0 was shown between its frames 0 and 1,
\* with the second skin selected
C3_Witness ==
    /\ pc = "ready"
    /\ op.name = "set_anim_idx"
    /\ op.arg = 1
    /\ skin_idx = 1
    /\ Len(KeyFramesOf(0)) >= 2
    /\ BlendOfClip(out, 0)
    /\ ~BlendOfClip(out, 1)
    /\ \A k \in 1..Len(KeyFramesOf(0)) : out # ExactFrame(KeyFramesOf(0)[k])

\* C4: whenever animate returns with the stored factor 0 the buffer is the
\* current frame exactly; on a tick where the factor reaches 1 the frame that
\* was next, (f + 1) mod n, is the new current frame and the buffer is that
\* frame exactly.
C4_ExactAtZero ==
    [][op'.name = "animate" =>
         LET kfs == KeyFramesOf(anim_idx)
             was_next == (curr_frame + 1) % Len(kfs)
         IN  /\ interp' = 0 => out' = ExactFrame(kfs[curr_frame' + 1])
             /\ interp + PlaybackRate * op'.arg >= TicksPerSecond =>
                  /\ curr_frame' = was_next
                  /\ out' = ExactFrame(kfs[was_next + 1])]_vars

\* animate has just advanced a clip of several keyframes to its frame 1
C4_Witness ==
    /\ pc = "ready"
    /\ op.name = "animate"
    /\ op.arg > 0
    /\ interp = 0
    /\ curr_frame = 1
    /\ out = ExactFrame(KeyFramesOf(anim_idx)[2])
    /\ out # ExactFrame(KeyFramesOf(anim_idx)[1])

\* C5: for a clip with exactly one keyframe every animate call keeps the frame
\* index at 0 and returns that keyframe's vertices.
C5_SingleKeyframe ==
    (pc = "ready" /\ NumAnimFrames = 1) =>
        /\ curr_frame = 0
        /\ op.name = "animate" => out = ExactFrame(KeyFramesOf(anim_idx)[1])

\* animate has left a one-keyframe clip with a factor strictly between 0 and 1
C5_Witness ==
    /\ pc = "ready"
    /\ NumAnimFrames = 1
    /\ op.name = "animate"
    /\ interp > 0

\* C22: after any sequence of animate, next_anim and set_anim_idx(idx) with
\* idx < number of clips, on a component whose model has at least one clip,
\* anim_idx < number of clips and curr_frame < number of keyframes of clip
\* anim_idx, so animate never indexes a keyframe outside the selected clip;
\* next_anim moves to (anim_idx + 1) mod number of clips.
C22_IndicesInRange ==
    [][/\ pc' = "ready" =>
            /\ anim_idx' < Len(result'.val.animations)
            /\ curr_frame' < Len(result'.val.animations[anim_idx' + 1].key_frames)
       /\ op'.name = "animate" =>
            /\ anim_idx' = anim_idx
            /\ BlendOfClip(out', anim_idx)
       /\ op'.name = "next_anim" =>
            anim_idx' = (anim_idx + 1) % Len(Animations)]_vars

\* animate has reached the last keyframe of the last clip of a model of
\* several clips
C22_Witness ==
    /\ pc = "ready"
    /\ op.name = "animate"
    /\ Len(Animations) >= 2
    /\ anim_idx = Len(Animations) - 1
    /\ NumAnimFrames >= 2
    /\ curr_frame = NumAnimFrames - 1

\* the skin indices whose entry of materials is filled in mats
Filled(mats) == {j \in 1..Len(mats) : mats[j] # 0}

\* C23: over any sequence of set_skin_idx and next_skin calls, a material is
\* created for a skin index at most once: the first selection of index i
\* fills materials[i], every later selection of i returns the same stored
\* handle without creating a new material, entries of other indices are
\* unchanged, and the playback state (anim_idx, curr_frame, interp) is
\* unchanged by skin selection.
C23_MaterialOncePerSkin ==
    [][op'.name \in {"set_skin_idx", "next_skin"} =>
         LET i == skin_idx' + 1
         IN  /\ op'.name = "set_skin_idx" => skin_idx' = op'.arg
             /\ op'.name = "next_skin" => skin_idx' = (skin_idx + 1) % Len(Skins)
             /\ materials[i] = 0 =>
                  /\ assets' = assets + 1
                  /\ materials'[i] # 0
                  /\ \A j \in 1..Len(materials) : materials[j] # materials'[i]
             /\ materials[i] # 0 =>
                  /\ assets' = assets
                  /\ materials'[i] = materials[i]
             /\ mat3d' = materials'[i]
             /\ \A j \in 1..Len(materials) : j # i => materials'[j] = materials[j]
             /\ Len(materials') = Len(materials)
             /\ assets' = Cardinality(Filled(materials'))
             /\ anim_idx' = anim_idx
             /\ curr_frame' = curr_frame
             /\ interp' = interp]_vars

\* every skin has its material, playback stands between two frames, and
\* set_skin_idx has returned the handle stored by an earlier selection
C23_Witness ==
    /\ pc = "ready"
    /\ op.name = "set_skin_idx"
    /\ Len(Skins) >= 2
    /\ assets = Len(Skins)
    /\ mat3d = materials[skin_idx + 1]
    /\ mat3d < assets
    /\ interp > 0

-----------------------------------------------------------------------------
(* Claims about decoding, checked under SpecLoad *)

Decoded == pc = "decoded" /\ result.kind = "Ok"

\* the raw frames the decoder reads: header num_frames of them, none when the
\* count is not positive
NumRawFrames == Max(file.num_frames, 0)

DerivedName(k) == GetName(file.frames[k].name)

\* the keyframe raw frame k decodes to, when its vertices decode
RawKeyFrame(k) ==
    ReadAndDecompressVertices(file.num_xyz * VertexSize, file.num_xyz,
                              file.frames[k], file.tris).val

NameChanges == {k \in 1..(NumRawFrames - 1) : DerivedName(k) # DerivedName(k + 1)}

RECURSIVE ConcatKeyFrames(_, _)
ConcatKeyFrames(animations, i) ==
    IF i > Len(animations) THEN <<>>
    ELSE animations[i].key_frames \o ConcatKeyFrames(animations, i + 1)

RECURSIVE ClipNamesPerFrame(_, _)
ClipNamesPerFrame(animations, i) ==
    IF i > Len(animations) THEN <<>>
    ELSE [k \in 1..Len(animations[i].key_frames) |-> animations[i].name]
         \o ClipNamesPerFrame(animations, i + 1)

\* the grouping of C6 for the decoded clips
GroupedByName(animations) ==
    /\ Len(animations) = 1 + Cardinality(NameChanges)
    /\ ConcatKeyFrames(animations, 1) = [k \in 1..NumRawFrames |-> RawKeyFrame(k)]
    /\ ClipNamesPerFrame(animations, 1) = [k \in 1..NumRawFrames |-> DerivedName(k)]
    /\ \A i \in 1..(Len(animations) - 1) : animations[i].name # animations[i + 1].name

\* C6: load_animations groups the raw frames in file order so that adjacent
\* frames share a clip exactly when their derived names are equal: 1 + (number
\* of adjacent name changes) clips, each named after its frames, whose
\* keyframes concatenate to the raw frames.
C6_GroupedByName == Decoded => GroupedByName(result.val.animations)

\* the same grouping, for the files that hold at least one frame
C6_GroupedWhenFrames ==
    (Decoded /\ file.num_frames >= 1) => GroupedByName(result.val.animations)

\* the names run, run, idle gave the clip run with 2 keyframes, then idle with 1
C6_Example ==
    /\ Decoded
    /\ NumRawFrames = 3
    /\ Len(result.val.animations) = 2
    /\ Len(result.val.animations[1].key_frames) = 2
    /\ result.val.animations[1].name = <<114>>
    /\ Len(result.val.animations[2].key_frames) = 1
    /\ result.val.animations[2].name = <<105>>

RECURSIVE SumKeyFrames(_, _)
SumKeyFrames(animations, i) ==
    IF i > Len(animations) THEN 0
    ELSE Len(animations[i].key_frames) + SumKeyFrames(animations, i + 1)

\* C7: in every successfully decoded model every clip has at least one
\* keyframe, the clip of the last raw frame is in the result, and the keyframe
\* counts sum to num_frames.
C7_ClipsCoverFrames ==
    Decoded =>
        LET animations == result.val.animations
        IN  /\ \A i \in 1..Len(animations) : Len(animations[i].key_frames) >= 1
            /\ NumRawFrames >= 1 =>
                 /\ animations # <<>>
                 /\ LET last == animations[Len(animations)]
                    IN  /\ last.name = DerivedName(NumRawFrames)
                        /\ last.key_frames[Len(last.key_frames)] = RawKeyFrame(NumRawFrames)
            /\ SumKeyFrames(animations, 1) = file.num_frames

\* the same, with the frames the decoder reads (none for a negative count) in
\* the place of the header's num_frames
C7_ClipsCoverFramesRead ==
    Decoded =>
        LET animations == result.val.animations
        IN  /\ \A i \in 1..Len(animations) : Len(animations[i].key_frames) >= 1
            /\ NumRawFrames >= 1 =>
                 /\ animations # <<>>
                 /\ LET last == animations[Len(animations)]
                    IN  /\ last.name = DerivedName(NumRawFrames)
                        /\ last.key_frames[Len(last.key_frames)] = RawKeyFrame(NumRawFrames)
            /\ SumKeyFrames(animations, 1) = NumRawFrames

\* the last record of a section that holds `count` records of `size` bytes
\* starts past the end of the buffer
StartsPastEnd(f, offset, count, size) ==
    count >= 1 /\ offset + (count - 1) * size > f.len

\* the header's counts are all non-negative
CountsValid(f) == f.num_st >= 0 /\ f.num_tris >= 0 /\ f.num_xyz >= 0 /\ f.num_frames >= 0

\* a section of the file that decoding reads has a record past the buffer end
RecordPastEnd(f) ==
    \/ StartsPastEnd(f, f.offset_tris, f.num_tris, TriangleSize)
    \/ StartsPastEnd(f, f.offset_st, f.num_st, TexCoordSize)
    \/ StartsPastEnd(f, f.offset_frames, f.num_frames,
                     FrameSize + Max(f.num_xyz, 0) * VertexSize)

\* C9: when a section offset (offset_tris, offset_st, offset_frames) or a
\* record position derived from a count lies past the end of the buffer,
\* decoding returns InvalidFormat: it never panics and never returns a model.
\* (Stated for headers with non-negative counts and for the sections that
\* hold at least one record.)
C9_PastEndIsFormatError ==
    (pc = "decoded" /\ CountsValid(file) /\ RecordPastEnd(file)) =>
        result.kind = "InvalidFormat"

\* a triangle of the model holds an index outside the vertex array of a frame
\* or outside the texture coordinate table
IndexOutOfRange(f) ==
    \E i \in 1..Len(f.tris), c \in 1..3 :
        f.tris[i].vertex[c] >= f.num_xyz \/ f.tris[i].st[c] >= f.num_st

\* C10: when a triangle holds a vertex index >= num_xyz or a texture
\* coordinate index >= num_st, decoding returns InvalidFormat instead of
\* indexing outside the array.  (Stated for headers with non-negative counts.)
C10_BadIndexIsFormatError ==
    (pc = "decoded" /\ CountsValid(file) /\ IndexOutOfRange(file)) =>
        result.kind = "InvalidFormat"

\* C11: a model whose frame list is empty (header num_frames <= 0) makes
\* MD2::load fail, and load never returns Ok with an empty list of clips.
\* (The failure is stated as "not Ok", so that only an accepted empty frame
\* list violates it.)
C11_EmptyFramesRejected ==
    pc = "decoded" =>
        /\ file.num_frames <= 0 => result.kind # "Ok"
        /\ result.kind = "Ok" => result.val.animations # <<>>

\* the texture coordinate the decoder is to store at entry n (0-based)
ExpectedUv(f, n) ==
    LET tc == f.sts[f.tris[(n \div 3) + 1].st[(n % 3) + 1] + 1]
    IN  <<tc.s, f.skinwidth, tc.t, f.skinheight>>

\* the position the decoder is to store at entry n (0-based) of raw frame k
ExpectedPosition(f, k, n) ==
    LET fr == f.frames[k]
        v == fr.verts[f.tris[(n \div 3) + 1].vertex[(n % 3) + 1] + 1].v
    IN  <<fr.scale[1] * v[1] + fr.translate[1],
          fr.scale[3] * v[3] + fr.translate[3],
          fr.scale[2] * v[2] + fr.translate[2]>>

\* C12: for every successfully decoded model the flattened UV table has
\* exactly 3 * num_tris entries and every keyframe of every clip has exactly
\* 3 * num_tris positions; entry 3*k + i of the table comes from triangle k's
\* i-th texcoord index and entry 3*k + i of a keyframe from its i-th vertex
\* index.
C12_ParallelArrays ==
    Decoded =>
        LET texcoords == result.val.texcoords
            key_frames == ConcatKeyFrames(result.val.animations, 1)
            n_entries == 3 * file.num_tris
        IN  /\ Len(texcoords) = n_entries
            /\ \A n \in 0..(n_entries - 1) : texcoords[n + 1] = ExpectedUv(file, n)
            /\ \A k \in 1..Len(key_frames) :
                 /\ Len(key_frames[k]) = n_entries
                 /\ \A n \in 0..(n_entries - 1) :
                      key_frames[k][n + 1] = ExpectedPosition(file, k, n)

\* a model of two triangles and two frames was decoded, in which a corner's
\* texcoord index differs from its vertex index
C12_Witness ==
    /\ Decoded
    /\ file.num_tris = 2
    /\ Len(ConcatKeyFrames(result.val.animations, 1)) = 2
    /\ file.tris[2].st # file.tris[2].vertex
    /\ file.tris[1] # file.tris[2]

-----------------------------------------------------------------------------
(* Claims about frame names, checked under SpecName *)

\* n is f with only its trailing run of digits and control characters removed
IsTrailingTrim(n, f) ==
    /\ Len(n) <= Len(f)
    /\ n = Prefix(f, Len(n))
    /\ \A i \in (Len(n) + 1)..Len(f) : IsTrimmed(f[i])
    /\ n # <<>> => ~IsTrimmed(n[Len(n)])

\* C8: for every 16-byte name field Frame::get_name is the field with only its
\* trailing run of ASCII digits and control characters removed, digits and
\* control characters followed by other characters are kept, and md2.rs and
\* lib.rs derive the same name.
C8_TrailingTrim ==
    pc = "named" => (IsTrailingTrim(name.md2, field) /\ name.md2 = name.lib)

\* what lib.rs derives is the trailing trim
C8_LibTrailingTrim == pc = "named" => IsTrailingTrim(name.lib, field)

-----------------------------------------------------------------------------
(* Claims about PCX run-length decoding, checked under SpecRle *)

\* the input cut into its tokens, front to back: a literal byte, a run marker
\* with its value byte, or a run marker that ends the input (has_value FALSE)
RECURSIVE RleTokens(_)
RleTokens(s) ==
    IF s = <<>> THEN <<>>
    ELSE IF s[1] < RunMarker
    THEN <<[bytes |-> <<s[1]>>, has_value |-> TRUE]>> \o RleTokens(Tail(s))
    ELSE IF Len(s) = 1 THEN <<[bytes |-> <<>>, has_value |-> FALSE]>>
    ELSE <<[bytes |-> [k \in 1..(s[1] - RunMarker) |-> s[2]], has_value |-> TRUE]>>
         \o RleTokens(Tail(Tail(s)))

\* the output of the first m tokens
RECURSIVE TokensOutput(_, _)
TokensOutput(tokens, m) ==
    IF m = 0 THEN <<>> ELSE TokensOutput(tokens, m - 1) \o tokens[m].bytes

\* after j tokens the output is still shorter than total_bytes
OutputNeeded(tokens, j, total_bytes) ==
    Less(Word(Len(TokensOutput(tokens, j)), UsizeBytes), total_bytes)

\* the number of tokens read: each one while output is needed and input remains
TokensRead(tokens, total_bytes) ==
    CHOOSE m \in 0..Len(tokens) :
        /\ \A j \in 0..(m - 1) : OutputNeeded(tokens, j, total_bytes)
        /\ m = Len(tokens) \/ ~OutputNeeded(tokens, m, total_bytes)

\* C13: decompress_rle_data reads its input left to right and, while the
\* output is shorter than total_bytes and input remains, turns each byte
\* b < 0xC0 into the output byte b and each pair (b >= 0xC0, v) into b & 0x3F
\* copies of v; [0xC3, 0x05] with total_bytes >= 3 yields [5, 5, 5].
C13_RleExpansion ==
    pc = "expanded" =>
        LET tokens == RleTokens(rle.input)
            m == TokensRead(tokens, rle.total_bytes)
        IN  /\ (\A j \in 1..m : tokens[j].has_value) =>
                    rle.ret = Ok(TokensOutput(tokens, m))
            /\ (rle.input = <<195, 5>> /\ ~Less(rle.total_bytes, Word(3, UsizeBytes))) =>
                    rle.ret = Ok(<<5, 5, 5>>)
            /\ (Len(rle.input) = 1 /\ rle.input[1] < RunMarker
                /\ ~IsZero(rle.total_bytes)) => rle.ret = Ok(rle.input)

\* a literal, a run of 2 and a run that crosses the requested length were
\* expanded, and the byte after the run was not read
C13_Witness ==
    /\ pc = "expanded"
    /\ rle.input = <<5, 194, 191, 5>>
    /\ rle.total_bytes = Word(2, UsizeBytes)
    /\ rle.ret = Ok(<<5, 191, 191>>)

-----------------------------------------------------------------------------
(* Claims about PCX files, checked under SpecPcx *)

Parsed == pc = "parsed"

\* the header fields of the file, for a buffer that holds a header
XMin == Value(U16At(data, 4))
YMin == Value(U16At(data, 6))
XMax == Value(U16At(data, 8))
YMax == Value(U16At(data, 10))
Encoding == At(data, 2)
BitsPerPixel == At(data, 3)
Planes == At(data, 65)
BytesPerLine == Value(U16At(data, 66))

\* a buffer with a header, the signature and RLE encoding
ValidSignature == Len(data) >= HDR_BYTES /\ At(data, 0) = Manufacturer /\ Encoding = 1

IndexedFile == ValidSignature /\ BitsPerPixel = 8 /\ Planes = 1

PlanarFile == ValidSignature /\ BitsPerPixel = 8 /\ Planes \in {3, 4}

\* a bounding box in order, of at most 2^14 columns and rows: its extents and
\* the length of its RGBA buffer fit a u32
BoxFits ==
    /\ XMin <= XMax /\ XMax - XMin < 16384
    /\ YMin <= YMax /\ YMax - YMin < 16384

\* C14: in the indexed path pixel conversion only proceeds when the
\* decompressed buffer holds exactly bytes_per_line * height bytes: a pixel
\* stream that decompresses to fewer or to more bytes is not converted into
\* an image.
C14_ExactLengthBeforeConversion ==
    (Parsed /\ IndexedFile /\ rle # <<>> /\ rle.ret.kind = "Ok"
     /\ Word(Len(rle.ret.val), UsizeBytes) # rle.total_bytes) => image.kind # "Ok"

\* the tokens decompress_rle_data reads hold a run marker without a value byte
DanglingMarkerRead(input, total_bytes) ==
    LET tokens == RleTokens(input)
    IN  \E j \in 1..TokensRead(tokens, total_bytes) : ~tokens[j].has_value

\* C15: when decompress_rle_data reads a run marker while output is still
\* needed and no value byte follows it, it returns a format error and no
\* bytes, and parse_pcx returns that error and no image.
C15_DanglingMarkerIsFormatError ==
    (Parsed /\ rle # <<>> /\ DanglingMarkerRead(rle.input, rle.total_bytes)) =>
        /\ rle.ret = PcxError("Unexpected end of data", <<>>)
        /\ image = rle.ret

\* an image whose pixel bytes end in a run marker, after a byte that was
\* decompressed, was rejected
C15_Witness ==
    /\ Parsed
    /\ rle # <<>>
    /\ Len(rle.input) >= 2
    /\ DanglingMarkerRead(rle.input, rle.total_bytes)
    /\ image.kind = "InvalidFormat"

\* the buffer cannot hold the header followed by the palette trailer, or the
\* byte at len - 769 is not the marker
NoPaletteTrailer ==
    \/ Len(data) < HDR_BYTES + PaletteTrailer
    \/ At(data, Len(data) - PaletteTrailer) # PaletteMarker

\* C16: for every 8-bit 1-plane buffer with a header, the signature and RLE
\* encoding, when the byte at len - 769 is not 0x0C or the buffer is too short
\* for header and palette trailer, decoding returns a format error and never
\* panics.  (Stated for the bounding boxes whose arithmetic does not overflow.)
C16_NoTrailerIsFormatError ==
    (Parsed /\ IndexedFile /\ BoxFits /\ NoPaletteTrailer) =>
        image.kind = "InvalidFormat"

\* byte c of pixel (x, y) of the decoded image
PixelByte(x, y, c) ==
    ByteOf(image.val.data, (y * Value(image.val.width) + x) * 4 + c)

\* every pixel of the decoded image is the palette entry of its index byte
IndexedPixels ==
    LET d == rle.ret.val
        palette == SubSeq(data, Len(data) - 767, Len(data))
    IN  \/ IsZero(image.val.width) \/ IsZero(image.val.height)
        \/ \A y \in 0..(Value(image.val.height) - 1), x \in 0..(Value(image.val.width) - 1) :
             LET k == d[y * BytesPerLine + x + 1]
             IN  /\ PixelByte(x, y, 0) = palette[3 * k + 1]
                 /\ PixelByte(x, y, 1) = palette[3 * k + 2]
                 /\ PixelByte(x, y, 2) = palette[3 * k + 3]
                 /\ PixelByte(x, y, 3) = 255

\* C17: for a successfully decoded indexed image every output pixel (x, y) is
\* (palette[3k], palette[3k+1], palette[3k+2], 255), k the decompressed byte
\* at y * bytes_per_line + x and palette the 768 bytes after the marker; no
\* index byte is rejected.
C17_IndexedPixels ==
    (Parsed /\ IndexedFile) =>
        /\ image.kind = "Ok" => IndexedPixels
        /\ image # PcxError("Invalid palette index", <<>>)

\* a 2 x 2 image was decoded whose rows are longer than its width and whose
\* pixels hold the indices 5 and 255
C17_Witness ==
    /\ Parsed /\ IndexedFile /\ image.kind = "Ok"
    /\ Value(image.val.width) = 2 /\ Value(image.val.height) = 2
    /\ BytesPerLine = 3
    /\ rle.ret.val[1] = 5
    /\ rle.ret.val[5] = 255

\* every pixel of the decoded image is the three plane bytes of its column
PlanarPixels ==
    LET d == rle.ret.val
    IN  \/ IsZero(image.val.width) \/ IsZero(image.val.height)
        \/ \A y \in 0..(Value(image.val.height) - 1), x \in 0..(Value(image.val.width) - 1) :
             LET s == y * BytesPerLine * Planes
             IN  /\ PixelByte(x, y, 0) = d[s + x + 1]
                 /\ PixelByte(x, y, 1) = d[s + BytesPerLine + x + 1]
                 /\ PixelByte(x, y, 2) = d[s + 2 * BytesPerLine + x + 1]
                 /\ PixelByte(x, y, 3) = 255

BadHeader ==
    \/ Len(data) < HDR_BYTES
    \/ At(data, 0) # Manufacturer
    \/ Encoding # 1
    \/ <<BitsPerPixel, Planes>> \notin {<<8, 1>>, <<8, 3>>, <<8, 4>>}

\* the error names the bit depth and plane count of an unsupported pair
NamesUnsupportedPair ==
    (ValidSignature /\ <<BitsPerPixel, Planes>> \notin {<<8, 1>>, <<8, 3>>, <<8, 4>>}) =>
        image = PcxError("Unsupported PCX format", <<BitsPerPixel, Planes>>)

\* C19: parse_pcx returns a format error and no image for every buffer that
\* is shorter than 128 bytes, whose byte 0 is not 0x0A, whose encoding byte is
\* not 1 or whose (bits per pixel, planes) pair is not (8,1), (8,3) or (8,4);
\* for the last case the error names the bit depth and the plane count.
C19_BadHeaderIsFormatError ==
    (Parsed /\ BadHeader) => (image.kind = "InvalidFormat" /\ NamesUnsupportedPair)

\* the same, for the headers whose bounding box arithmetic does not overflow
C19_BadHeaderWhenBoxFits ==
    (Parsed /\ BadHeader /\ (Len(data) >= HDR_BYTES => BoxFits)) =>
        (image.kind = "InvalidFormat" /\ NamesUnsupportedPair)

\* max - min + 1 as a mathematical integer is the u32 value `extent`
IsExtent(extent, max, min) == max - min + 1 >= 0 /\ extent = Word(max - min + 1, U32Bytes)

\* C20: for every bounding box of four 16-bit header values the width and
\* height parse_pcx uses equal xmax - xmin + 1 and ymax - ymin + 1 as
\* mathematical integers and the RGBA buffer it allocates has exactly
\* width * height * 4 bytes.
C20_ExtentsExact ==
    (Parsed /\ Len(data) >= HDR_BYTES /\ At(data, 0) = Manufacturer) =>
        /\ alloc # <<>>
        /\ IsExtent(alloc.width, XMax, XMin)
        /\ IsExtent(alloc.height, YMax, YMin)
        /\ alloc.len = Scale(FullMul(alloc.width, alloc.height), 4)

\* the same, for the boxes in order of at most 2^14 columns and rows
C20_ExtentsExactWhenBoxFits ==
    (Parsed /\ Len(data) >= HDR_BYTES /\ At(data, 0) = Manufacturer /\ BoxFits) =>
        /\ alloc # <<>>
        /\ IsExtent(alloc.width, XMax, XMin)
        /\ IsExtent(alloc.height, YMax, YMin)
        /\ alloc.len = Scale(FullMul(alloc.width, alloc.height), 4)

-----------------------------------------------------------------------------
(* Claims about skin discovery, checked under SpecSkins *)

\* the files of the directory that one of the two patterns matches
SkinFiles == {n \in file.dir : \E e \in 1..Len(Extensions) : GlobMatches(n, Extensions[e])}

\* the files of the first pattern whose stem is st
FirstScanned(st) == {n \in SkinFiles : GlobMatches(n, Extensions[1]) /\ FileStem(n) = st}

\* C21: find_skins returns at most one skin per file stem: for a directory
\* holding both foo.pcx and foo.png exactly one skin named foo is returned, and
\* its path is the one of the first extension scanned (foo.pcx), whatever the
\* order in which the files are enumerated within an extension.
C21_OneSkinPerStem ==
    pc = "scanned" =>
        /\ \A i, j \in 1..Len(found) : found[i].name = found[j].name => i = j
        /\ {found[i].name : i \in 1..Len(found)} = {FileStem(n) : n \in SkinFiles}
        /\ \A i \in 1..Len(found) :
             /\ found[i].path \in SkinFiles
             /\ FileStem(found[i].path) = found[i].name
             /\ FirstScanned(found[i].name) # {} =>
                  found[i].path \in FirstScanned(found[i].name)

\* a directory with foo.pcx, foo.png and a third image was scanned: foo is
\* returned with the path foo.pcx, after another skin
C21_Witness ==
    /\ pc = "scanned"
    /\ {FooPcx, FooPng} \subseteq file.dir
    /\ Len(found) = 2
    /\ found[2] = [name |-> <<"f", "o", "o">>, path |-> FooPcx]

-----------------------------------------------------------------------------
(* Claims about continuous playback, checked under SpecPlay *)

\* every call to come is given the fixed delta
Steady == pc = "ready" /\ schedule.first = <<>>

\* one call moves the frame index from f to f or to (f + 1) mod n
StepsByOne ==
    [][op'.name = "animate" =>
         \/ curr_frame' = curr_frame
         \/ curr_frame' = (curr_frame + 1) % NumAnimFrames]_vars

\* C24: if animate is called forever with a fixed delta > 0 and the clip is
\* never switched, the frame index changes only from f to (f + 1) mod n, and
\* every frame index 0..n-1 of the clip becomes the current frame infinitely
\* often (playback never stalls on a frame and never skips one).
C24_EveryFramePlays ==
    /\ StepsByOne
    /\ \A k \in 0..(MaxFrames - 1) :
         (Steady /\ schedule.fixed > 0 /\ k < NumAnimFrames) ~> (curr_frame = k)

\* the same for the deltas whose eightfold is more than half the distance
\* between the f32 values below 1
C24_EveryFramePlaysWhenNotSmall ==
    /\ StepsByOne
    /\ \A k \in 0..(MaxFrames - 1) :
         (Steady /\ schedule.fixed > SmallDelta /\ k < NumAnimFrames)
             ~> (curr_frame = k)

\* the small delta has left the factor where it was, short of 1
C24_Stalled ==
    /\ Steady
    /\ op.name = "animate"
    /\ op.arg = SmallDelta
    /\ interp > 0
    /\ interp < F32One
    /\ RoundF32(interp + RoundF32(PlaybackRate * schedule.fixed)) = interp

====
